---- MODULE Spec2Model ----
(***************************************************************************)
(* Room actor and overload-protection layer of the chat service.           *)
(*                                                                         *)
(* The protection classes (RateLimiter, CircuitBreaker, ConnectionMonitor, *)
(* OverloadProtectionManager) are modelled from src/src/overloadProtection *)
(* .ts and the room from src/src/room.ts.  Time is a discrete clock `now`  *)
(* standing for Date.now(); the numeric limits of the classes are scaled   *)
(* to small values (see the bounds below).                                 *)
(*                                                                         *)
(* An operation handed to CircuitBreaker.execute is asynchronous: the call *)
(* starts it and a later step completes it, so several operations can be   *)
(* in flight through the same breaker.                                     *)
(***************************************************************************)
EXTENDS Integers, Sequences, FiniteSets, TLC

(***************************************************************************)
(* Bounds.  Scaled stand-ins for constructor arguments and limits of the   *)
(* code (200 requests / 60000 ms, threshold 10 / 60000 ms, 500            *)
(* connections, capacity 100, history 100, 20 messages / 60000 ms, 10     *)
(* recent messages, 3 s typing timer, 5 min away threshold, 5 min         *)
(* hibernation timer, 24 h alarm, a save every 10th message); the others  *)
(* bound the exploration.  The scaled values keep the order of the real   *)
(* ones where a handler depends on it: the connection limit is not below  *)
(* the capacity and the request cap is above the message cap.             *)
(***************************************************************************)
MaxTime == 3
MaxRequests == 4
WindowMs == 2
FailureThreshold == 2
RecoveryTimeout == 2
MaxConnections == 2
MaxInFlight == 2
MaxRequestCount == 5
MaxCapacity == 2
HistoryLimit == 2
MessageLimit == 2
MessageWindowMs == 1
HibernationDelay == 1
MaxSockets == 2
MaxRoomRequests == 4
MaxRoomTime == 1
RecentLimit == 1
TypingDelay == 1
AwayThreshold == 1
AlarmDelay == 2
SaveInterval == 2
MaxTimers == 2
MaxRestarts == 1
PresenceHorizon == 2
AlarmKeep == 1
InactiveThreshold == 1

Identifiers == {"x", "y"}
\* the identifier a manager used on its own is called for
Callers == {"x"}
\* the user ids that connect to the room
Users == {"a", "b"}
\* the connection counts reported to a manager used on its own
ConnectionCounts == {0, MaxConnections, MaxConnections + 1}

VARIABLES
  now,              \* Date.now()
  requests,         \* RateLimiter.requests: identifier -> accepted timestamps
  failures,         \* CircuitBreaker.failures
  lastFailureTime,  \* CircuitBreaker.lastFailureTime
  cbState,          \* CircuitBreaker.state
  connectionCount,  \* ConnectionMonitor.connectionCount
  requestCount,     \* ConnectionMonitor.requestCount
  isShuttingDown,   \* OverloadProtectionManager.isShuttingDown
  tasks,            \* operations started by execute() and not yet settled
  accepted,         \* history: every timestamp isAllowed ever accepted, per identifier
  ev,               \* observation of the last call: what was called and what it returned
  sessions,         \* Room.sessions: userId -> session
  users,            \* Room.users: userId -> User
  messages,         \* Room.messages
  messageRateLimits,\* Room.messageRateLimits: userId -> timestamps
  lastActivity,     \* Room.lastActivity
  isHibernating,    \* Room.isHibernating
  hibernationTimeout, \* Room.hibernationTimeout: when the armed timer fires, or NoTimer
  saving,           \* scheduleHibernation calls suspended on their storage writes
  sockets,          \* the accepted WebSockets still open: id -> the tags attached
  created,          \* how many WebSockets the room has accepted so far
  log,              \* history: every chat message accepted so far, oldest first
  sessionOrder,     \* the keys of Room.sessions in Map (insertion) order
  typingUsers,      \* Room.typingUsers
  typingTimers,     \* pending typing setTimeout callbacks: handle -> user id and due time
  roomId,           \* Room.roomId
  storage,          \* state.storage: key -> the record last put
  alarmAt,          \* the time state.storage.setAlarm was last given, or NoTimer
  restarts,         \* how often the object was evicted and constructed again
  storageDown       \* state.storage.put rejects for the time being

protVars == <<requests, failures, lastFailureTime, cbState, connectionCount,
              requestCount, isShuttingDown>>
roomVars == <<sessions, users, messages, messageRateLimits, lastActivity,
              isHibernating, hibernationTimeout, saving, sockets, created, log,
              sessionOrder, typingUsers, typingTimers, roomId, storage, alarmAt,
              restarts, storageDown>>
vars == <<now, requests, failures, lastFailureTime, cbState, connectionCount,
          requestCount, isShuttingDown, tasks, accepted, ev, roomVars>>

\* the number of operations in flight; tasks[trial] counts those started by
\* the call that found the breaker OPEN (trial) and the others (~trial)
InFlight == tasks[TRUE] + tasks[FALSE]

\* the observation left by a call nothing is observed of
NoEv == [op |-> "other"]

\* Room.hibernationTimeout with no timer pending
NoTimer == -1

(***************************************************************************)
(* Clock                                                                   *)
(***************************************************************************)
Advance ==
  /\ now < MaxTime
  /\ now' = now + 1
  /\ ev' = NoEv
  /\ UNCHANGED <<roomVars, protVars, tasks, accepted>>

(***************************************************************************)
(* RateLimiter                                                             *)
(***************************************************************************)
\* this.requests.get(identifier) || []
RequestTimes(id) == IF id \in DOMAIN requests THEN requests[id] ELSE <<>>

\* mutant of ValidRequests: the window start itself still counts
ValidRequestsInclusive(times, t) ==
  SelectSeq(times, LAMBDA time : time >= t - WindowMs)

\* requestTimes.filter(time => time > windowStart), windowStart = t - windowMs
ValidRequests(times, t) == SelectSeq(times, LAMBDA time : time > t - WindowMs)

\* the value isAllowed(identifier) returns
IsAllowed(id) == Len(ValidRequests(RequestTimes(id), now)) < MaxRequests

\* this.requests after isAllowed(identifier)
RequestsAfterIsAllowed(id) ==
  IF IsAllowed(id)
    THEN (id :> Append(ValidRequests(RequestTimes(id), now), now)) @@ requests
    ELSE requests

\* this.requests after cleanup()
RequestsAfterCleanup ==
  LET keep == {id \in DOMAIN requests : ValidRequests(requests[id], now) # <<>>}
  IN  [id \in keep |-> ValidRequests(requests[id], now)]

\* a direct call of RateLimiter.isAllowed
RLIsAllowed(id) ==
  /\ requests' = RequestsAfterIsAllowed(id)
  /\ accepted' = IF IsAllowed(id)
                   THEN [accepted EXCEPT ![id] = Append(@, now)]
                   ELSE accepted
  /\ ev' = [op |-> "isAllowed", id |-> id, result |-> IsAllowed(id)]
  /\ UNCHANGED <<roomVars, now, failures, lastFailureTime, cbState, connectionCount,
                 requestCount, isShuttingDown, tasks>>

\* a direct call of RateLimiter.cleanup
RLCleanup ==
  /\ requests' = RequestsAfterCleanup
  /\ ev' = NoEv
  /\ UNCHANGED <<roomVars, now, failures, lastFailureTime, cbState, connectionCount,
                 requestCount, isShuttingDown, tasks, accepted>>

(***************************************************************************)
(* CircuitBreaker                                                          *)
(***************************************************************************)
\* mutant of BreakerRejects: recovery one tick early
BreakerRejectsEarlyRecovery ==
  cbState = "OPEN" /\ ~(now - lastFailureTime >= RecoveryTimeout)

\* execute(): the call is refused, state OPEN and the recovery timeout not over
BreakerRejects ==
  cbState = "OPEN" /\ ~(now - lastFailureTime > RecoveryTimeout)

\* execute(): the state in which the operation is invoked
StateOnEntry == IF cbState = "OPEN" THEN "HALF_OPEN" ELSE cbState

\* the breaker after onSuccess()
AfterSuccess ==
  [state |-> "CLOSED", failures |-> 0, lastFailureTime |-> lastFailureTime]

\* mutant of AfterFailure: opens one failure late
AfterFailureLate(st, f) ==
  [state |-> IF f + 1 > FailureThreshold THEN "OPEN" ELSE st,
   failures |-> f + 1,
   lastFailureTime |-> now]

\* the breaker after onFailure(), called in state st with count f
AfterFailure(st, f) ==
  [state |-> IF f + 1 >= FailureThreshold THEN "OPEN" ELSE st,
   failures |-> f + 1,
   lastFailureTime |-> now]

SetBreaker(b) ==
  /\ cbState' = b.state
  /\ failures' = b.failures
  /\ lastFailureTime' = b.lastFailureTime

\* a direct call of CircuitBreaker.execute(operation): refused, or the
\* operation is invoked and stays in flight until it settles
CBExecute ==
  IF BreakerRejects
    THEN /\ ev' = [op |-> "execute", result |-> "Circuit breaker is OPEN",
                   ran |-> FALSE]
         /\ UNCHANGED <<roomVars, now, protVars, tasks, accepted>>
    ELSE /\ InFlight < MaxInFlight
         /\ cbState' = StateOnEntry
         /\ tasks' = [tasks EXCEPT ![cbState = "OPEN"] = @ + 1]
         /\ ev' = [op |-> "execute", result |-> "invoked", ran |-> TRUE]
         /\ UNCHANGED <<roomVars, now, requests, failures, lastFailureTime,
                        connectionCount, requestCount, isShuttingDown, accepted>>

\* an operation in flight resolves: execute() runs onSuccess()
OpSucceeds(trial) ==
  /\ tasks[trial] > 0
  /\ SetBreaker(AfterSuccess)
  /\ tasks' = [tasks EXCEPT ![trial] = @ - 1]
  /\ ev' = [op |-> "settle", result |-> "success", trial |-> trial]
  /\ UNCHANGED <<roomVars, now, requests, connectionCount, requestCount, isShuttingDown,
                 accepted>>

\* an operation in flight rejects: execute() runs onFailure() and rethrows
OpFails(trial) ==
  /\ tasks[trial] > 0
  /\ SetBreaker(AfterFailure(cbState, failures))
  /\ tasks' = [tasks EXCEPT ![trial] = @ - 1]
  /\ ev' = [op |-> "settle", result |-> "failure", trial |-> trial]
  /\ UNCHANGED <<roomVars, now, requests, connectionCount, requestCount, isShuttingDown,
                 accepted>>

(***************************************************************************)
(* ConnectionMonitor                                                       *)
(***************************************************************************)
IsOverloaded == connectionCount > MaxConnections

\* getHealthStatus().status; count > max * 0.8 in integers
HealthStatus ==
  IF connectionCount * 10 > MaxConnections * 8
    THEN (IF IsOverloaded THEN "critical" ELSE "warning")
    ELSE "healthy"

(***************************************************************************)
(* OverloadProtectionManager                                               *)
(***************************************************************************)
\* mutant of GateError: the overload check before the rate limiter
GateErrorOverloadFirst(id) ==
  IF isShuttingDown THEN "Service is shutting down"
  ELSE IF IsOverloaded THEN "Too many connections"
  ELSE IF ~IsAllowed(id) THEN "Rate limit exceeded"
  ELSE IF BreakerRejects THEN "Circuit breaker is OPEN"
  ELSE "none"

\* the error executeWithProtection throws before invoking the operation,
\* "none" when every check passes
GateError(id) ==
  IF isShuttingDown THEN "Service is shutting down"
  ELSE IF ~IsAllowed(id) THEN "Rate limit exceeded"
  ELSE IF IsOverloaded THEN "Too many connections"
  ELSE IF BreakerRejects THEN "Circuit breaker is OPEN"
  ELSE "none"

\* this.rateLimiter.requests after the call
RequestsAfterGate(id) ==
  IF isShuttingDown THEN requests ELSE RequestsAfterIsAllowed(id)

\* mutant of RequestCountAfterGate: counted before the rate limiter is asked
RequestCountAfterGateEager(id) ==
  IF isShuttingDown THEN requestCount ELSE requestCount + 1

\* this.connectionMonitor.requestCount after the call
RequestCountAfterGate(id) ==
  IF GateError(id) \in {"none", "Circuit breaker is OPEN"}
    THEN requestCount + 1
    ELSE requestCount

\* mutant of IsSystemHealthy: the shutdown flag is not consulted
IsSystemHealthyIgnoringShutdown ==
  HealthStatus = "healthy" /\ cbState = "CLOSED"

IsSystemHealthy ==
  HealthStatus = "healthy" /\ cbState = "CLOSED" /\ ~isShuttingDown

\* executeWithProtection(id, operation) with an operation that stays in flight
ExecuteWithProtection(id) ==
  /\ requests' = RequestsAfterGate(id)
  /\ requestCount' = RequestCountAfterGate(id)
  /\ IF GateError(id) = "none"
       THEN /\ InFlight < MaxInFlight
            /\ cbState' = StateOnEntry
            /\ tasks' = [tasks EXCEPT ![cbState = "OPEN"] = @ + 1]
            /\ ev' = [op |-> "protect", id |-> id, result |-> "invoked",
                      ran |-> TRUE]
       ELSE /\ ev' = [op |-> "protect", id |-> id, result |-> GateError(id),
                      ran |-> FALSE]
            /\ UNCHANGED <<cbState, tasks>>
  /\ UNCHANGED <<roomVars, now, failures, lastFailureTime, connectionCount,
                 isShuttingDown, accepted>>

UpdateConnectionCount(count) ==
  /\ connectionCount' = count
  /\ ev' = NoEv
  /\ UNCHANGED <<roomVars, now, requests, failures, lastFailureTime, cbState,
                 requestCount, isShuttingDown, tasks, accepted>>

InitiateGracefulShutdown ==
  /\ isShuttingDown' = TRUE
  /\ ev' = NoEv
  /\ UNCHANGED <<roomVars, now, requests, failures, lastFailureTime, cbState,
                 connectionCount, requestCount, tasks, accepted>>

(***************************************************************************)
(* Room.  Each handler is one step: the room is a single actor that takes  *)
(* its events one at a time, and what a handler leaves to a later          *)
(* microtask of the same event (the tail of a handleDisconnect started by  *)
(* a failed send) is part of its step.  The exception is                   *)
(* scheduleHibernation, which tests the session count, then awaits its     *)
(* storage writes, and only then sets the flag: the writes are a           *)
(* suspension point at which other events are taken.                       *)
(*                                                                         *)
(* A handler works on a record `st` of the fields it reads and writes,     *)
(* threaded through the calls it makes in the order the code makes them:   *)
(*   sessions, order, users, messages, typingUsers, timers, roomId,        *)
(*   lastActivity   the fields of the room                                 *)
(*   sent           socket -> the frames sent to it by this handler        *)
(*   counted        updateConnectionCount was called                       *)
(*   active         updateActivity was called                              *)
(*   puts           the storage keys put                                   *)
(* A send throws for the sockets in `bad` (closed by the peer, the close   *)
(* event not taken yet) and succeeds for the others.                       *)
(***************************************************************************)
Remove(f, k) == [x \in DOMAIN f \ {k} |-> f[x]]

\* array.slice(-n)
LastN(seq, n) ==
  IF Len(seq) <= n THEN seq ELSE SubSeq(seq, Len(seq) - n + 1, Len(seq))

\* mutant of AtCapacity: off by one
AtCapacityOffByOne == Cardinality(DOMAIN sessions) > MaxCapacity

\* this.sessions.size >= this.maxCapacity
AtCapacity == Cardinality(DOMAIN sessions) >= MaxCapacity

\* mutant of PushMessage: the newest entries are dropped instead of the oldest
PushMessageKeepOldest(msgs, m) ==
  LET pushed == Append(msgs, m)
  IN  IF Len(pushed) > HistoryLimit THEN SubSeq(pushed, 1, HistoryLimit) ELSE pushed

\* this.messages after push(message) and the trim to the last 100
PushMessage(msgs, m) ==
  LET pushed == Append(msgs, m)
  IN  IF Len(pushed) > HistoryLimit THEN LastN(pushed, HistoryLimit) ELSE pushed

\* this.messageRateLimits.get(userId) || []
MessageTimes(u) ==
  IF u \in DOMAIN messageRateLimits THEN messageRateLimits[u] ELSE <<>>

\* userMessages.filter(timestamp => now - timestamp < timeWindow)
RecentMessages(u) == SelectSeq(MessageTimes(u), LAMBDA t : now - t < MessageWindowMs)

\* the value isMessageRateLimited(userId) returns
IsMessageRateLimited(u) == Len(RecentMessages(u)) >= MessageLimit

\* the User record handleWebSocket and webSocketMessage create
NewUser(connectedAt) ==
  [connectedAt |-> connectedAt, lastSeen |-> now, status |-> "online",
   isTyping |-> FALSE, typingTimeout |-> NoTimer]

\* this.users after the assignments of updateUserActivity(userId)
UsersAfterActivity(usrs, u) ==
  IF u \in DOMAIN usrs
    THEN [usrs EXCEPT ![u].lastSeen = now, ![u].status = "online"]
    ELSE usrs

\* the fields as fetch() leaves them before it routes the request:
\* loadPersistedState() runs while this.roomId is empty.  A stored
\* lastActivity is a Date.now() value and so never falsy.
Loaded ==
  IF roomId # ""
    THEN [roomId |-> roomId, lastActivity |-> lastActivity,
          messages |-> messages, users |-> users]
    ELSE [roomId |-> IF "roomData" \in DOMAIN storage
                       THEN storage["roomData"].roomId ELSE roomId,
          lastActivity |-> IF "roomData" \in DOMAIN storage
                             THEN storage["roomData"].lastActivity
                             ELSE lastActivity,
          messages |-> IF "messages" \in DOMAIN storage
                         THEN storage["messages"] ELSE messages,
          users |-> IF "users" \in DOMAIN storage
                      THEN storage["users"] ELSE users]

\* the record a handler entered through fetch() starts from
FetchState ==
  [sessions |-> sessions, order |-> sessionOrder, users |-> Loaded.users,
   messages |-> Loaded.messages, typingUsers |-> typingUsers,
   timers |-> typingTimers, roomId |-> Loaded.roomId,
   lastActivity |-> Loaded.lastActivity, sent |-> <<>>, counted |-> FALSE,
   active |-> FALSE, puts |-> {}]

\* the record a handler entered through a WebSocket event or a timer starts from
EventState ==
  [sessions |-> sessions, order |-> sessionOrder, users |-> users,
   messages |-> messages, typingUsers |-> typingUsers,
   timers |-> typingTimers, roomId |-> roomId,
   lastActivity |-> lastActivity, sent |-> <<>>, counted |-> FALSE,
   active |-> FALSE, puts |-> {}]

\* the frames this handler sent to socket w so far
SentTo(st, w) == IF w \in DOMAIN st.sent THEN st.sent[w] ELSE <<>>

\* websocket.send(frame) that does not throw
Send(st, w, frame) ==
  [st EXCEPT !.sent = (w :> Append(SentTo(st, w), frame)) @@ st.sent]

\* websocket.send(frame) inside a try whose catch only logs
TrySend(st, w, frame, bad) == IF w \in bad THEN st ELSE Send(st, w, frame)

\* updateActivity(): lastActivity, saveRoomData(), resetHibernationTimer()
UpdateActivity(st) ==
  [st EXCEPT !.active = TRUE, !.puts = @ \cup {"roomData"}]

RECURSIVE BroadcastFrom(_, _, _, _)
RECURSIVE HandleDisconnect(_, _, _)

\* mutant of BroadcastMessage: the loop ends at the first send that throws
BroadcastStopsAtFailure(st, frame, bad) ==
  LET failing == {i \in 1..Len(st.order) :
                    st.sessions[st.order[i]].websocket \in bad}
      upTo == IF failing = {} THEN Len(st.order)
              ELSE CHOOSE i \in failing : \A j \in failing : i <= j
  IN  BroadcastFrom(st, SubSeq(st.order, 1, upTo), frame, bad)

\* broadcastMessage(message): every session in Map order
BroadcastMessage(st, frame, bad) == BroadcastFrom(st, st.order, frame, bad)

\* the loop of broadcastMessage over the keys still to visit; an entry
\* deleted before its turn is skipped, a send that throws starts
\* handleDisconnect for that user and the loop goes on
BroadcastFrom(st, todo, frame, bad) ==
  IF todo = <<>> THEN st
  ELSE LET u == Head(todo)
       IN  IF u \notin DOMAIN st.sessions
             THEN BroadcastFrom(st, Tail(todo), frame, bad)
             ELSE IF st.sessions[u].websocket \in bad
               THEN BroadcastFrom(HandleDisconnect(st, u, bad), Tail(todo),
                                  frame, bad)
               ELSE BroadcastFrom(Send(st, st.sessions[u].websocket, frame),
                                  Tail(todo), frame, bad)

\* mutant of HandleDisconnect: the socket of the user who left is told too
HandleDisconnectTellsLeaver(st, u, bad) ==
  IF u \notin DOMAIN st.sessions THEN st
  ELSE LET leave == [type |-> "leave", userId |-> u]
           gone == [st EXCEPT !.sessions = Remove(@, u),
                              !.order = SelectSeq(@, LAMBDA x : x # u),
                              !.users = Remove(@, u),
                              !.counted = TRUE]
           told == BroadcastFrom(gone, gone.order, leave, bad)
           echoed == TrySend(told, st.sessions[u].websocket, leave, bad)
       IN  [UpdateActivity(echoed) EXCEPT !.puts = @ \cup {"roomData", "users"}]

\* mutant of HandleDisconnect: the User record is kept
HandleDisconnectKeepsUser(st, u, bad) ==
  IF u \notin DOMAIN st.sessions THEN st
  ELSE LET gone == [st EXCEPT !.sessions = Remove(@, u),
                              !.order = SelectSeq(@, LAMBDA x : x # u),
                              !.counted = TRUE]
           told == BroadcastFrom(gone, gone.order,
                                 [type |-> "leave", userId |-> u], bad)
       IN  [UpdateActivity(told) EXCEPT !.puts = @ \cup {"roomData", "users"}]

\* handleDisconnect(userId)
HandleDisconnect(st, u, bad) ==
  IF u \notin DOMAIN st.sessions THEN st
  ELSE LET gone == [st EXCEPT !.sessions = Remove(@, u),
                              !.order = SelectSeq(@, LAMBDA x : x # u),
                              !.users = Remove(@, u),
                              !.counted = TRUE]
           told == BroadcastFrom(gone, gone.order,
                                 [type |-> "leave", userId |-> u], bad)
       IN  [UpdateActivity(told) EXCEPT !.puts = @ \cup {"roomData", "users"}]

\* the content of a userList frame: broadcastPresenceUpdate()
UserListFrame(st) ==
  [type |-> "userList",
   list |-> [x \in DOMAIN st.users |->
               [status |-> st.users[x].status, isTyping |-> st.users[x].isTyping]]]

\* the content of a typing frame: the typing users that have a User record
TypingFrame(st) ==
  [type |-> "typing", typing |-> st.typingUsers \cap DOMAIN st.users]

\* the frame of a chat message
ChatFrame(m) == [type |-> "message", id |-> m.id, userId |-> m.userId]

\* updateUserActivity(userId)
UpdateUserActivity(st, u, bad) ==
  IF u \notin DOMAIN st.users THEN st
  ELSE LET seen == [st EXCEPT !.users = UsersAfterActivity(@, u)]
       IN  IF st.users[u].status # "online"
             THEN BroadcastMessage(seen, UserListFrame(seen), bad)
             ELSE seen

\* clearTimeout(handle)
ClearTimeout(timers, h) == IF h \in DOMAIN timers THEN Remove(timers, h) ELSE timers

\* the handle setTimeout returns: the lowest one not pending
FreeHandle(timers) ==
  CHOOSE h \in 1..(MaxTimers + 1) :
    h \notin DOMAIN timers /\ \A k \in 1..(h - 1) : k \in DOMAIN timers

\* handleTypingStart(userId)
HandleTypingStart(st, u, bad) ==
  IF u \notin DOMAIN st.users \/ st.users[u].isTyping THEN st
  ELSE LET cleared == ClearTimeout(st.timers, st.users[u].typingTimeout)
           h == FreeHandle(cleared)
           typing == [st EXCEPT !.users[u].isTyping = TRUE,
                                !.users[u].typingTimeout = h,
                                !.typingUsers = @ \cup {u},
                                !.timers = (h :> [userId |-> u,
                                                  at |-> now + TypingDelay])
                                             @@ cleared]
       IN  BroadcastMessage(typing, TypingFrame(typing), bad)

\* handleTypingStop(userId)
HandleTypingStop(st, u, bad) ==
  IF u \notin DOMAIN st.users \/ ~st.users[u].isTyping THEN st
  ELSE LET stopped == [st EXCEPT !.users[u].isTyping = FALSE,
                                 !.users[u].typingTimeout = NoTimer,
                                 !.typingUsers = @ \ {u},
                                 !.timers = ClearTimeout(@, st.users[u].typingTimeout)]
       IN  BroadcastMessage(stopped, TypingFrame(stopped), bad)

\* mutant of NewStatus: away as soon as the threshold is reached
NewStatusEarly(st, u) ==
  IF u \in DOMAIN st.sessions
    THEN (IF now - st.users[u].lastSeen >= AwayThreshold THEN "away" ELSE "online")
    ELSE "offline"

\* updateUserPresence(): the status the tick computes for user u
NewStatus(st, u) ==
  IF u \in DOMAIN st.sessions
    THEN (IF now - st.users[u].lastSeen > AwayThreshold THEN "away" ELSE "online")
    ELSE "offline"

\* updateUserPresence()
UpdateUserPresence(st, bad) ==
  LET changed == {u \in DOMAIN st.users : st.users[u].status # NewStatus(st, u)}
      cleared == {u \in changed : NewStatus(st, u) # "online" /\ st.users[u].isTyping}
      handles == {st.users[u].typingTimeout : u \in cleared}
      ticked == [st EXCEPT
                   !.users = [u \in DOMAIN st.users |->
                                IF u \in cleared
                                  THEN [st.users[u] EXCEPT
                                          !.status = NewStatus(st, u),
                                          !.isTyping = FALSE,
                                          !.typingTimeout = NoTimer]
                                  ELSE [st.users[u] EXCEPT
                                          !.status = NewStatus(st, u)]],
                   !.typingUsers = @ \ cleared,
                   !.timers = [h \in DOMAIN st.timers \ handles |-> st.timers[h]]]
  IN  IF changed = {} THEN st
      ELSE [BroadcastMessage(ticked, UserListFrame(ticked), bad)
              EXCEPT !.puts = @ \cup {"users"}]

\* the record state.storage holds under key k after a put by this handler
Snapshot(st, k) ==
  CASE k = "users" -> st.users
    [] k = "messages" -> LastN(st.messages, HistoryLimit)
    [] k = "roomData" -> [roomId |-> st.roomId,
                          lastActivity |-> IF st.active THEN now
                                           ELSE st.lastActivity]

\* state.storage after the puts of this handler: a put that rejects writes
\* nothing
Stored(st) ==
  IF storageDown THEN storage
  ELSE [k \in DOMAIN storage \cup st.puts |->
          IF k \in st.puts THEN Snapshot(st, k) ELSE storage[k]]

\* mutant of SaveRejects: the error of a put that rejects leaves the function
SaveRejectsWhenDown(st) == storageDown /\ st.puts # {}

\* saveRoomData, saveMessages, saveUsers: the function rejects.  Each put is
\* inside a try whose catch only logs
SaveRejects(st) == FALSE

\* the variables of the protection layer a handler reaches only through
\* executeWithProtection
gateVars == <<requests, failures, lastFailureTime, cbState, requestCount,
              isShuttingDown, tasks, accepted>>

\* the fields a handler leaves behind
Commit(st) ==
  /\ sessions' = st.sessions
  /\ sessionOrder' = st.order
  /\ users' = st.users
  /\ messages' = st.messages
  /\ typingUsers' = st.typingUsers
  /\ typingTimers' = st.timers
  /\ roomId' = st.roomId
  /\ lastActivity' = IF st.active THEN now ELSE st.lastActivity
  /\ hibernationTimeout' = IF st.active THEN now + HibernationDelay
                           ELSE hibernationTimeout
  /\ connectionCount' = IF st.counted THEN Cardinality(DOMAIN st.sessions)
                        ELSE connectionCount
  /\ storage' = Stored(st)

\* the protection state after executeWithProtection(id, operation) when the
\* operation, once admitted, settles in the same step: onFailure() when it
\* throws, onSuccess() when it returns
Protected(id, opThrows) ==
  /\ requests' = RequestsAfterGate(id)
  /\ requestCount' = RequestCountAfterGate(id)
  /\ IF GateError(id) = "none"
       THEN SetBreaker(IF opThrows THEN AfterFailure(StateOnEntry, failures)
                                   ELSE AfterSuccess)
       ELSE UNCHANGED <<cbState, failures, lastFailureTime>>
  /\ UNCHANGED <<isShuttingDown, tasks, accepted>>

\* the roomId parameter of the requests
RoomIdParam == "r"

\* websocket.send of each frame in turn, each inside its own try
SendEach(st, w, frames, bad) ==
  IF w \in bad \/ frames = <<>> THEN st
  ELSE [st EXCEPT !.sent = (w :> (SentTo(st, w) \o frames)) @@ st.sent]

\* mutant of RecentFrames: the whole history is replayed
RecentFramesAll(msgs) == [i \in 1..Len(msgs) |-> ChatFrame(msgs[i])]

\* sendRecentMessages: the frames of this.messages.slice(-10)
RecentFrames(msgs) ==
  LET recent == LastN(msgs, RecentLimit)
  IN  [i \in 1..Len(recent) |-> ChatFrame(recent[i])]

\* the operation handleWebSocket hands to executeWithProtection, when it
\* does not throw: the new socket is ws
Admit(st, u, ws, bad) ==
  LET joined == [st EXCEPT
                   !.roomId = RoomIdParam,
                   !.sessions = (u :> [websocket |-> ws, lastPing |-> now,
                                       connectedAt |-> now]) @@ @,
                   !.order = IF u \in DOMAIN st.sessions THEN @ ELSE Append(@, u),
                   !.users = (u :> NewUser(now)) @@ @,
                   !.counted = TRUE,
                   !.puts = @ \cup {"users"}]
      greeted == BroadcastMessage(joined, [type |-> "join", userId |-> u], bad)
      replayed == SendEach(greeted, ws, RecentFrames(greeted.messages), bad)
      active == UpdateActivity(replayed)
  IN  BroadcastMessage(active, UserListFrame(active), bad)

\* mutant of Awake: the flag is left as it was
AwakeKept == isHibernating

\* handleWebSocket, behind the capacity test: this.isHibernating = false
Awake == FALSE

\* handleWebSocket for userId u (username and roomId present), entered with
\* the fields st; the sends to the sockets in bad throw; at most limit
\* sockets are ever accepted
HandleWebSocketWithin(st, u, bad, limit) ==
  LET err == GateError(u)
      full == AtCapacity
      ws == created + 1
  IN  /\ RequestCountAfterGate(u) <= MaxRoomRequests
      /\ Protected(u, full \/ (err = "none" /\ SaveRejects(Admit(st, u, ws, bad))))
      /\ IF err # "none"
           THEN /\ Commit(st)
                /\ ev' = [op |-> "connect", id |-> u, status |-> 503,
                          message |-> err, sent |-> st.sent, socket |-> 0]
                /\ UNCHANGED <<messageRateLimits, isHibernating, saving,
                               sockets, created, log, alarmAt, restarts,
                               storageDown>>
           ELSE IF full
             THEN /\ Commit([st EXCEPT !.roomId = RoomIdParam])
                  /\ ev' = [op |-> "connect", id |-> u, status |-> 503,
                            message |-> "Room at capacity", sent |-> st.sent,
                            socket |-> 0]
                  /\ UNCHANGED <<messageRateLimits, isHibernating, saving,
                                 sockets, created, log, alarmAt, restarts,
                                 storageDown>>
             ELSE /\ created < limit
                  /\ isHibernating' = Awake
                  /\ created' = ws
                  /\ sockets' = (ws :> [userId |-> u, connectedAt |-> now])
                                  @@ sockets
                  /\ Commit(Admit(st, u, ws, bad))
                  /\ ev' = [op |-> "connect", id |-> u, status |-> 101,
                            message |-> "", sent |-> Admit(st, u, ws, bad).sent,
                            socket |-> ws, bad |-> bad]
                  /\ UNCHANGED <<messageRateLimits, saving, log, alarmAt, restarts,
                                 storageDown>>
      /\ UNCHANGED now

\* handleWebSocket while fewer than MaxSockets sockets were accepted
HandleWebSocket(st, u, bad) == HandleWebSocketWithin(st, u, bad, MaxSockets)

\* fetch: GET /websocket
Connect(u, bad) == HandleWebSocket(FetchState, u, bad)

\* fetch: POST /join, with or without the Upgrade: websocket header
HandleJoin(u, upgrade, bad) ==
  LET named == [FetchState EXCEPT !.roomId = RoomIdParam]
  IN  IF AtCapacity \/ ~upgrade
        THEN /\ Commit(named)
             /\ ev' = [op |-> "join", id |-> u,
                       status |-> IF AtCapacity THEN 503 ELSE 426,
                       message |-> IF AtCapacity THEN "Room at capacity"
                                   ELSE "Expected Upgrade: websocket",
                       sent |-> named.sent, socket |-> 0]
             /\ UNCHANGED <<now, gateVars, messageRateLimits, isHibernating,
                            saving, sockets, created, log, alarmAt, restarts,
                            storageDown>>
        ELSE HandleWebSocket(named, u, bad)

\* webSocketClose / webSocketError for the open socket w
WebSocketClose(w, bad) ==
  /\ w \in DOMAIN sockets
  /\ LET u == sockets[w].userId
         st == HandleDisconnect(EventState, u, bad)
     IN  /\ Commit(st)
         /\ ev' = [op |-> "close", id |-> u, left |-> (u \in DOMAIN sessions),
                   sent |-> st.sent, socket |-> w, bad |-> bad]
  /\ sockets' = Remove(sockets, w)
  /\ UNCHANGED <<now, gateVars, messageRateLimits, isHibernating, saving,
                 created, log, alarmAt, restarts, storageDown>>

\* the payloads of an inbound frame: a chat message, a payload of more than
\* 10240 characters, typing on, typing off
PayloadTypes == {"message", "oversize", "typingStart", "typingStop"}

\* webSocketMessage: the session and the User are created from the socket's
\* tags when the user has no session
Restored(st, w) ==
  LET u == sockets[w].userId
  IN  IF u \in DOMAIN st.sessions THEN st
      ELSE [st EXCEPT
              !.sessions = (u :> [websocket |-> w, lastPing |-> now,
                                  connectedAt |-> sockets[w].connectedAt]) @@ @,
              !.order = Append(@, u),
              !.users = (u :> NewUser(sockets[w].connectedAt)) @@ @]

\* handleMessage, catch: the error frame goes to the socket of the user's
\* session, if there is one
ErrorReply(st, u, content, bad) ==
  IF u \in DOMAIN st.sessions
    THEN TrySend(st, st.sessions[u].websocket,
                 [type |-> "error", content |-> content], bad)
    ELSE st

\* every payload of an inbound frame: those of PayloadTypes, a ping, a request
\* for the user list and a payload of a type handleMessage does not know
AllTypes == PayloadTypes \cup {"ping", "requestUserList", "unknown"}

\* handleMessage, type 'ping': lastPing is written on the session object
\* looked up before updateUserActivity, the map holds it unless a failed
\* broadcast removed it meanwhile
Pinged(st, u) ==
  IF u \in DOMAIN st.sessions THEN [st EXCEPT !.sessions[u].lastPing = now] ELSE st

\* mutant of HandlePing: the pong is broadcast
HandlePingToAll(st, u, ws, bad) ==
  BroadcastMessage(Pinged(st, u), [type |-> "pong"], bad)

\* handleMessage, type 'ping': the pong goes to the socket ws of that session
\* object; the send is not inside a try of its own
HandlePing(st, u, ws, bad) ==
  IF ws \in bad
    THEN ErrorReply(Pinged(st, u), u, "send failed", bad)
    ELSE Send(Pinged(st, u), ws, [type |-> "pong"])

\* mutant of AcceptMessage: the length is tested before the trim to the
\* history limit
AcceptMessageTestsBeforeTrim(st, u, m, bad) ==
  LET quiet == HandleTypingStop(st, u, bad)
      pushed == PushMessage(quiet.messages, m)
      kept == [quiet EXCEPT
                 !.messages = pushed,
                 !.puts = IF (Len(quiet.messages) + 1) % SaveInterval = 0
                            THEN @ \cup {"messages"} ELSE @]
  IN  UpdateActivity(BroadcastMessage(kept, ChatFrame(m), bad))

\* handleMessage, type 'message' once the rate limit is passed
AcceptMessage(st, u, m, bad) ==
  LET quiet == HandleTypingStop(st, u, bad)
      pushed == PushMessage(quiet.messages, m)
      kept == [quiet EXCEPT
                 !.messages = pushed,
                 !.puts = IF Len(pushed) % SaveInterval = 0
                            THEN @ \cup {"messages"} ELSE @]
  IN  UpdateActivity(BroadcastMessage(kept, ChatFrame(m), bad))

\* webSocketMessage(ws, message) for the open socket w, then handleMessage
WebSocketMessage(w, type, bad) ==
  /\ w \in DOMAIN sockets
  /\ LET u == sockets[w].userId
         restored == u \notin DOMAIN sessions
         entered == Restored(EventState, w)
         err == GateError(u)
         tooLarge == type = "oversize"
         seen == UpdateUserActivity(entered, u, bad)
         limited == type = "message" /\ IsMessageRateLimited(u)
         pongFails == type = "ping" /\ entered.sessions[u].websocket \in bad
         m == [id |-> Len(log) + 1, userId |-> u, timestamp |-> now]
         accepts == err = "none" /\ type = "message" /\ ~limited
         reply == IF err # "none" THEN err
                  ELSE IF tooLarge THEN "Message too large"
                  ELSE IF limited THEN "Message rate limit exceeded"
                  ELSE IF pongFails THEN "send failed"
                  ELSE ""
         done == IF err # "none" \/ tooLarge
                   THEN ErrorReply(entered, u, reply, bad)
                 ELSE IF limited THEN ErrorReply(seen, u, reply, bad)
                 ELSE IF type = "message" THEN AcceptMessage(seen, u, m, bad)
                 ELSE IF type = "typingStart" THEN HandleTypingStart(seen, u, bad)
                 ELSE IF type = "typingStop" THEN HandleTypingStop(seen, u, bad)
                 ELSE IF type = "ping"
                   THEN HandlePing(seen, u, entered.sessions[u].websocket, bad)
                 ELSE IF type = "requestUserList"
                   THEN BroadcastMessage(seen, UserListFrame(seen), bad)
                 ELSE seen
     IN  /\ RequestCountAfterGate(u) <= MaxRoomRequests
         /\ accepts => Len(log) < HistoryLimit + 2
         /\ type = "typingStart" => Cardinality(DOMAIN typingTimers) < MaxTimers
         /\ Protected(u, tooLarge \/ limited \/ pongFails \/ SaveRejects(done))
         /\ Commit(done)
         /\ messageRateLimits' =
              IF accepts
                THEN (u :> Append(RecentMessages(u), now)) @@ messageRateLimits
                ELSE messageRateLimits
         /\ log' = IF accepts THEN Append(log, m) ELSE log
         /\ ev' = [op |-> "message", id |-> u, type |-> type,
                   restored |-> restored, reply |-> reply, sent |-> done.sent,
                   socket |-> w, bad |-> bad]
  /\ UNCHANGED <<now, isHibernating, saving, sockets, created, alarmAt, restarts,
                 storageDown>>

\* the typing timer with handle h fires: handleTypingStop(userId)
TypingTimerFires(h, bad) ==
  /\ h \in DOMAIN typingTimers
  /\ now >= typingTimers[h].at
  /\ LET u == typingTimers[h].userId
         st == HandleTypingStop([EventState EXCEPT !.timers = Remove(@, h)],
                                u, bad)
     IN  /\ Commit(st)
         /\ ev' = [op |-> "typingTimeout", id |-> u, sent |-> st.sent]
  /\ UNCHANGED <<now, gateVars, messageRateLimits, isHibernating, saving,
                 sockets, created, log, alarmAt, restarts, storageDown>>

\* the presence interval fires: updateUserPresence()
PresenceTick(bad) ==
  /\ LET st == UpdateUserPresence(EventState, bad)
     IN  /\ Commit(st)
         /\ ev' = [op |-> "presence", sent |-> st.sent]
  /\ UNCHANGED <<now, gateVars, messageRateLimits, isHibernating, saving,
                 sockets, created, log, alarmAt, restarts, storageDown>>

\* mutant of ScheduleHibernation: the sessions are not looked at
ScheduleHibernationUnguarded(st) ==
  IF ~isHibernating
    THEN /\ saving < MaxInFlight
         /\ saving' = saving + 1
         /\ storage' = Stored([st EXCEPT !.puts = {"messages"}])
    ELSE UNCHANGED <<saving, storage>>

\* scheduleHibernation up to its first await: the guard is evaluated and
\* saveMessages() issues its put
ScheduleHibernation(st) ==
  IF DOMAIN sessions = {} /\ ~isHibernating
    THEN /\ saving < MaxInFlight
         /\ saving' = saving + 1
         /\ storage' = Stored([st EXCEPT !.puts = {"messages"}])
    ELSE UNCHANGED <<saving, storage>>

\* the hibernation timer armed by resetHibernationTimer fires
HibernationTimerFires ==
  /\ hibernationTimeout # NoTimer
  /\ now >= hibernationTimeout
  /\ hibernationTimeout' = NoTimer
  /\ ScheduleHibernation(EventState)
  /\ ev' = NoEv
  /\ UNCHANGED <<now, gateVars, connectionCount, sessions, users, messages,
                 messageRateLimits, lastActivity, isHibernating, sockets,
                 created, log, sessionOrder, typingUsers, typingTimers,
                 roomId, alarmAt, restarts, storageDown>>

\* fetch: POST /hibernate
HandleHibernation ==
  /\ users' = Loaded.users
  /\ messages' = Loaded.messages
  /\ roomId' = Loaded.roomId
  /\ lastActivity' = Loaded.lastActivity
  /\ IF DOMAIN sessions = {} THEN ScheduleHibernation(FetchState)
                             ELSE UNCHANGED <<saving, storage>>
  /\ ev' = [op |-> "hibernate", hibernated |-> (DOMAIN sessions = {})]
  /\ UNCHANGED <<now, gateVars, connectionCount, sessions, messageRateLimits,
                 isHibernating, hibernationTimeout, sockets, created, log,
                 sessionOrder, typingUsers, typingTimers, alarmAt, restarts,
                 storageDown>>

\* the hibernate() method called directly on the object
Hibernate ==
  /\ ScheduleHibernation(EventState)
  /\ ev' = [op |-> "hibernate", hibernated |-> isHibernating]
  /\ UNCHANGED <<now, gateVars, connectionCount, sessions, users, messages,
                 messageRateLimits, lastActivity, isHibernating,
                 hibernationTimeout, sockets, created, log, sessionOrder,
                 typingUsers, typingTimers, roomId, alarmAt, restarts,
                 storageDown>>

\* scheduleHibernation after saveMessages(): saveUsers(), saveRoomData(),
\* setAlarm(now + 24 h), and the flag is set
HibernationSaved ==
  /\ saving > 0
  /\ saving' = saving - 1
  /\ storage' = Stored([EventState EXCEPT !.puts = {"users", "roomData"}])
  /\ alarmAt' = now + AlarmDelay
  /\ isHibernating' = TRUE
  /\ ev' = [op |-> "hibernated"]
  /\ UNCHANGED <<now, gateVars, connectionCount, sessions, users, messages,
                 messageRateLimits, lastActivity, hibernationTimeout, sockets,
                 created, log, sessionOrder, typingUsers, typingTimers,
                 roomId, restarts, storageDown>>

\* alarm(), for the users it deletes: now - user.connectedAt > 7 days
Inactive(u) == now - users[u].connectedAt > InactiveThreshold

\* alarm(): the history is cut to its last 50 entries and saved when it is
\* longer, the users the test names are deleted, the user list is saved and
\* the next alarm is set 24 h from now
Alarm ==
  /\ alarmAt # NoTimer
  /\ now >= alarmAt
  /\ LET trims == Len(messages) > AlarmKeep
         kept == {u \in DOMAIN users : ~Inactive(u)}
         st == [EventState EXCEPT
                  !.messages = IF trims THEN LastN(@, AlarmKeep) ELSE @,
                  !.users = [u \in kept |-> users[u]],
                  !.puts = IF trims THEN {"messages", "users"} ELSE {"users"}]
     IN  /\ Commit(st)
         /\ ev' = [op |-> "alarm", trimmed |-> trims,
                   evicted |-> DOMAIN users \ kept]
  /\ alarmAt' = now + AlarmDelay
  /\ UNCHANGED <<now, gateVars, messageRateLimits, isHibernating, saving,
                 sockets, created, log, restarts, storageDown>>

\* state.storage starts to reject its puts
StorageFails ==
  /\ ~storageDown
  /\ storageDown' = TRUE
  /\ ev' = [op |-> "storage"]
  /\ UNCHANGED <<now, protVars, tasks, accepted, sessions, users, messages,
                 messageRateLimits, lastActivity, isHibernating,
                 hibernationTimeout, saving, sockets, created, log,
                 sessionOrder, typingUsers, typingTimers, roomId, storage,
                 alarmAt, restarts>>

\* state.storage takes puts again
StorageRecovers ==
  /\ storageDown
  /\ storageDown' = FALSE
  /\ ev' = [op |-> "storage"]
  /\ UNCHANGED <<now, protVars, tasks, accepted, sessions, users, messages,
                 messageRateLimits, lastActivity, isHibernating,
                 hibernationTimeout, saving, sockets, created, log,
                 sessionOrder, typingUsers, typingTimers, roomId, storage,
                 alarmAt, restarts>>

\* the object is evicted and constructed again: the fields and the
\* protection manager are new, the timers and the suspended calls are gone;
\* the accepted WebSockets, the storage and the alarm stay
Restart ==
  /\ restarts < MaxRestarts
  /\ restarts' = restarts + 1
  /\ sessions' = <<>>
  /\ sessionOrder' = <<>>
  /\ users' = <<>>
  /\ messages' = <<>>
  /\ messageRateLimits' = <<>>
  /\ lastActivity' = now
  /\ isHibernating' = FALSE
  /\ hibernationTimeout' = NoTimer
  /\ saving' = 0
  /\ typingUsers' = {}
  /\ typingTimers' = <<>>
  /\ roomId' = ""
  /\ requests' = <<>>
  /\ failures' = 0
  /\ lastFailureTime' = 0
  /\ cbState' = "CLOSED"
  /\ connectionCount' = 0
  /\ requestCount' = 0
  /\ isShuttingDown' = FALSE
  /\ ev' = [op |-> "restart"]
  /\ UNCHANGED <<now, tasks, accepted, sockets, created, log, storage, alarmAt,
                 storageDown>>

(***************************************************************************)
(* Initial state: the state after construction                             *)
(***************************************************************************)
Init ==
  /\ now = 0
  /\ requests = <<>>
  /\ failures = 0
  /\ lastFailureTime = 0
  /\ cbState = "CLOSED"
  /\ connectionCount = 0
  /\ requestCount = 0
  /\ isShuttingDown = FALSE
  /\ tasks = [trial \in BOOLEAN |-> 0]
  /\ accepted = [id \in Identifiers |-> <<>>]
  /\ ev = NoEv
  /\ sessions = <<>>
  /\ users = <<>>
  /\ messages = <<>>
  /\ messageRateLimits = <<>>
  /\ lastActivity = 0
  /\ isHibernating = FALSE
  /\ hibernationTimeout = NoTimer
  /\ saving = 0
  /\ sockets = <<>>
  /\ created = 0
  /\ log = <<>>
  /\ sessionOrder = <<>>
  /\ typingUsers = {}
  /\ typingTimers = <<>>
  /\ roomId = ""
  /\ storage = <<>>
  /\ alarmAt = NoTimer
  /\ restarts = 0
  /\ storageDown = FALSE

(***************************************************************************)
(* SpecRL: a RateLimiter on its own, called for two identifiers            *)
(***************************************************************************)
NextRL ==
  \/ \E id \in Identifiers : RLIsAllowed(id)
  \/ RLCleanup
  \/ Advance

SpecRL == Init /\ [][NextRL]_vars

(***************************************************************************)
(* SpecCB: a CircuitBreaker on its own, wrapping operations that may       *)
(* resolve or reject                                                       *)
(***************************************************************************)
NextCB ==
  \/ CBExecute
  \/ \E trial \in BOOLEAN : OpSucceeds(trial)
  \/ \E trial \in BOOLEAN : OpFails(trial)
  \/ Advance

SpecCB == Init /\ [][NextCB]_vars

(***************************************************************************)
(* SpecOPM: an OverloadProtectionManager on its own                        *)
(***************************************************************************)
NextOPM ==
  \/ \E id \in Callers :
       RequestCountAfterGate(id) <= MaxRequestCount /\ ExecuteWithProtection(id)
  \/ \E trial \in BOOLEAN : OpSucceeds(trial)
  \/ \E trial \in BOOLEAN : OpFails(trial)
  \/ \E count \in ConnectionCounts : UpdateConnectionCount(count)
  \/ InitiateGracefulShutdown
  \/ RLCleanup
  \/ Advance

SpecOPM == Init /\ [][NextOPM]_vars

(***************************************************************************)
(* SpecRoom: a room and its protection manager, from construction          *)
(***************************************************************************)
SocketIds == 1..MaxSockets

\* the frames that carry or fail to carry a chat message
ChatTypes == {"message", "oversize"}

\* the sets of sockets whose next send may throw: a handler sends to the
\* sockets of the sessions only
Failing == SUBSET {sessions[u].websocket : u \in DOMAIN sessions}

NextRoom ==
  \/ \E u \in Users : Connect(u, {})
  \/ \E u \in Users, upgrade \in BOOLEAN : HandleJoin(u, upgrade, {})
  \/ \E w \in SocketIds : WebSocketMessage(w, "message", {})
  \/ \E w \in SocketIds : WebSocketClose(w, {})
  \/ HibernationTimerFires
  \/ HandleHibernation
  \/ HibernationSaved
  \/ now < MaxRoomTime /\ Advance

SpecRoom == Init /\ [][NextRoom]_vars

Spec == SpecRoom

(***************************************************************************)
(* SpecConnections: the room taking connect and disconnect events only     *)
(* (and its timers), no inbound message                                    *)
(***************************************************************************)
NextConnections ==
  \/ \E u \in Users, bad \in Failing : Connect(u, bad)
  \/ \E u \in Users, upgrade \in BOOLEAN, bad \in Failing :
       HandleJoin(u, upgrade, bad)
  \/ \E w \in SocketIds, bad \in Failing : WebSocketClose(w, bad \ {w})
  \/ HibernationTimerFires
  \/ HandleHibernation
  \/ HibernationSaved
  \/ now < MaxRoomTime /\ Advance

SpecConnections == Init /\ [][NextConnections]_vars

(***************************************************************************)
(* SpecChat: the room taking connections, chat messages and closes, with   *)
(* sends that may throw and no hibernation request                         *)
(***************************************************************************)
NextChat ==
  \/ \E u \in Users, bad \in Failing : Connect(u, bad)
  \/ \E w \in SocketIds, bad \in Failing : WebSocketMessage(w, "message", bad)
  \/ \E w \in SocketIds, bad \in Failing : WebSocketClose(w, bad \ {w})
  \/ now < MaxRoomTime /\ Advance

SpecChat == Init /\ [][NextChat]_vars

(***************************************************************************)
(* SpecPayloads: the room taking connections, chat messages, oversize      *)
(* payloads and closes; every send succeeds                                *)
(***************************************************************************)
NextPayloads ==
  \/ \E u \in Users : Connect(u, {})
  \/ \E w \in SocketIds, type \in ChatTypes : WebSocketMessage(w, type, {})
  \/ \E w \in SocketIds : WebSocketClose(w, {})
  \/ now < MaxRoomTime /\ Advance

SpecPayloads == Init /\ [][NextPayloads]_vars

(***************************************************************************)
(* SpecTyping: connections, inbound frames, closes, the typing timers and  *)
(* the presence tick.  The typing delay (3 s) is far below the away        *)
(* threshold (5 min): a due typing timer fires before the clock moves on.  *)
(***************************************************************************)
\* a typing timer fires when it is due: the time does not pass a due timer
TimersPunctual == \A h \in DOMAIN typingTimers : now < typingTimers[h].at

NextTyping ==
  \/ \E u \in Users : Connect(u, {})
  \/ \E w \in SocketIds, type \in PayloadTypes : WebSocketMessage(w, type, {})
  \/ \E w \in SocketIds : WebSocketClose(w, {})
  \/ \E h \in 1..MaxTimers : TypingTimerFires(h, {})
  \/ PresenceTick({})
  \/ now < PresenceHorizon /\ TimersPunctual /\ Advance

SpecTyping == Init /\ [][NextTyping]_vars

(***************************************************************************)
(* SpecLifecycle: the room across hibernation requests and an eviction,    *)
(* with one user on one or several connections                             *)
(***************************************************************************)
Resident == CHOOSE u \in Users : TRUE

NextLifecycle ==
  \/ Connect(Resident, {})
  \/ \E w \in SocketIds, type \in ChatTypes : WebSocketMessage(w, type, {})
  \/ \E w \in SocketIds : WebSocketClose(w, {})
  \/ HandleHibernation
  \/ Hibernate
  \/ HibernationSaved
  \/ Restart

SpecLifecycle == Init /\ [][NextLifecycle]_vars

(***************************************************************************)
(* SpecPing: connections, pings, closes and the presence tick; every send  *)
(* succeeds                                                                *)
(***************************************************************************)
NextPing ==
  \/ \E u \in Users : Connect(u, {})
  \/ \E w \in SocketIds : WebSocketMessage(w, "ping", {})
  \/ \E w \in SocketIds : WebSocketClose(w, {})
  \/ PresenceTick({})
  \/ now < PresenceHorizon /\ Advance

SpecPing == Init /\ [][NextPing]_vars

(***************************************************************************)
(* SpecPresence: connections, closes, the presence tick and an eviction,   *)
(* after which the stored users come back without a session                *)
(***************************************************************************)
NextPresence ==
  \/ \E u \in Users : Connect(u, {})
  \/ \E w \in SocketIds : WebSocketClose(w, {})
  \/ PresenceTick({})
  \/ Restart
  \/ now < PresenceHorizon /\ Advance

SpecPresence == Init /\ [][NextPresence]_vars

(***************************************************************************)
(* SpecWake: the room of SpecPresence with the inbound payloads that are   *)
(* neither chat nor typing: after an eviction a frame on an accepted       *)
(* WebSocket re-creates its session                                        *)
(***************************************************************************)
\* the payloads that touch nothing but the presence
PresenceTypes == {"ping", "requestUserList", "unknown"}

NextWake ==
  \/ \E u \in Users : Connect(u, {})
  \/ \E w \in SocketIds, type \in PresenceTypes : WebSocketMessage(w, type, {})
  \/ \E w \in SocketIds : WebSocketClose(w, {})
  \/ PresenceTick({})
  \/ Restart
  \/ now < PresenceHorizon /\ Advance

SpecWake == Init /\ [][NextWake]_vars

(***************************************************************************)
(* SpecAdmission: connection attempts of every outcome, closes and         *)
(* hibernation requests; no inbound frame and no clock                     *)
(***************************************************************************)
NextAdmission ==
  \/ \E u \in Users : Connect(u, {})
  \/ \E u \in Users, upgrade \in BOOLEAN : HandleJoin(u, upgrade, {})
  \/ \E w \in SocketIds : WebSocketClose(w, {})
  \/ HandleHibernation
  \/ HibernationSaved

SpecAdmission == Init /\ [][NextAdmission]_vars

(***************************************************************************)
(* SpecStorage: connections, chat messages and closes while the storage    *)
(* rejects its puts from time to time; every send succeeds                 *)
(***************************************************************************)
NextStorage ==
  \/ \E u \in Users : Connect(u, {})
  \/ \E w \in SocketIds : WebSocketMessage(w, "message", {})
  \/ \E w \in SocketIds : WebSocketClose(w, {})
  \/ StorageFails
  \/ StorageRecovers

SpecStorage == Init /\ [][NextStorage]_vars

(***************************************************************************)
(* SpecIdle: connections, chat messages, closes and the hibernation timer. *)
(* An armed timer fires in the end, the writes of scheduleHibernation come *)
(* to an end, and the time goes on until the armed timer is due.  The     *)
(* clock of the model is bounded, so the events stop at a horizon.         *)
(***************************************************************************)
\* the clock moves: up to the horizon, and beyond it up to the armed timer
TimePasses ==
  /\ \/ now < MaxRoomTime
     \/ hibernationTimeout # NoTimer /\ now < hibernationTimeout
  /\ Advance

\* the events arrive up to the horizon: a timer they arm is due within the
\* range of the clock
EventsArrive == now <= MaxRoomTime

NextIdle ==
  \/ \E u \in Users : EventsArrive /\ Connect(u, {})
  \/ \E w \in SocketIds : EventsArrive /\ WebSocketMessage(w, "message", {})
  \/ \E w \in SocketIds : EventsArrive /\ WebSocketClose(w, {})
  \/ HibernationTimerFires
  \/ HibernationSaved
  \/ TimePasses

SpecIdle ==
  /\ Init
  /\ [][NextIdle]_vars
  /\ WF_vars(HibernationTimerFires)
  /\ WF_vars(HibernationSaved)
  /\ WF_vars(TimePasses)

(***************************************************************************)
(* Properties                                                              *)
(***************************************************************************)
\* the positions of `times` whose timestamp is inside the trailing window
\* that ends at t
InWindow(times, t) == {i \in 1..Len(times) : t - times[i] < WindowMs}

\* how often t occurs in `times`
Occurrences(times, t) == Cardinality({i \in 1..Len(times) : times[i] = t})

\* C3: isAllowed(id) returns true exactly when fewer than the cap of the
\* calls accepted for id so far have timestamps inside the trailing window;
\* an accepted call records its timestamp, a denied call records nothing,
\* and a call for id leaves every other identifier's record alone.
C3_SlidingWindow ==
  [][\A id \in Identifiers :
       (ev'.op = "isAllowed" /\ ev'.id = id) =>
         /\ ev'.result = (Cardinality(InWindow(accepted[id], now)) < MaxRequests)
         /\ ev'.result =>
              Occurrences(RequestTimes(id)', now)
                = Occurrences(RequestTimes(id), now) + 1
         /\ ~ev'.result => requests' = requests
         /\ \A other \in Identifiers \ {id} :
              RequestTimes(other)' = RequestTimes(other)]_vars

\* C3 witness: id is allowed again after more accepted calls than the cap,
\* while the other identifier is at its cap.
C3_Witness ==
  /\ ev.op = "isAllowed"
  /\ ev.result
  /\ Len(accepted[ev.id]) > MaxRequests
  /\ \E other \in Identifiers \ {ev.id} :
       Cardinality(InWindow(accepted[other], now)) >= MaxRequests

\* C4: while CLOSED a success resets the failure count to 0 and a failure
\* adds one to it; the breaker leaves CLOSED for OPEN exactly when the count
\* reaches the threshold and is CLOSED only with a count below it.
C4_ClosedCounting ==
  /\ [](cbState = "CLOSED" => failures < FailureThreshold)
  /\ [][(cbState = "CLOSED" /\ ev'.op = "settle") =>
          /\ ev'.result = "success" => (failures' = 0 /\ cbState' = "CLOSED")
          /\ ev'.result = "failure" =>
               /\ failures' = failures + 1
               /\ (cbState' = "OPEN") <=> (failures' = FailureThreshold)
               /\ cbState' \in {"OPEN", "CLOSED"}]_vars
  /\ [][(cbState = "CLOSED" /\ cbState' # "CLOSED") =>
          /\ cbState' = "OPEN"
          /\ ev'.op = "settle" /\ ev'.result = "failure"
          /\ failures' = FailureThreshold]_vars

\* C4 witness: the failure that reached the threshold opened the breaker.
C4_Witness ==
  /\ ev.op = "settle"
  /\ ev.result = "failure"
  /\ ~ev.trial
  /\ cbState = "OPEN"
  /\ failures = FailureThreshold

\* C5: while OPEN with now - lastFailureTime <= recoveryTimeout, execute
\* fails with the circuit-open error, invokes nothing and leaves the state,
\* the failure count and lastFailureTime as they were.
C5_OpenFailsFast ==
  [][(cbState = "OPEN" /\ now - lastFailureTime <= RecoveryTimeout
        /\ ev'.op = "execute") =>
       /\ ev'.result = "Circuit breaker is OPEN"
       /\ ~ev'.ran
       /\ tasks' = tasks
       /\ UNCHANGED <<cbState, failures, lastFailureTime>>]_vars

\* C5 witness: a call refused exactly recoveryTimeout after the last failure.
C5_Witness ==
  /\ ev.op = "execute"
  /\ ev.result = "Circuit breaker is OPEN"
  /\ cbState = "OPEN"
  /\ now - lastFailureTime = RecoveryTimeout

\* C6: an execute call made when the breaker is OPEN and the recovery
\* timeout is over moves it to HALF_OPEN and runs the operation; when that
\* operation succeeds the breaker is CLOSED with count 0, and when it fails
\* the breaker is OPEN with lastFailureTime the time of that failure.
C6_HalfOpenTrial ==
  [][/\ (cbState = "OPEN" /\ now - lastFailureTime > RecoveryTimeout
           /\ ev'.op = "execute") =>
          (cbState' = "HALF_OPEN" /\ ev'.ran /\ InFlight' = InFlight + 1)
     /\ (ev'.op = "settle" /\ ev'.trial /\ ev'.result = "success") =>
          (cbState' = "CLOSED" /\ failures' = 0)
     /\ (ev'.op = "settle" /\ ev'.trial /\ ev'.result = "failure") =>
          (cbState' = "OPEN" /\ lastFailureTime' = now)]_vars

\* C7: executeWithProtection checks shutdown, rate limit, connection
\* overload and breaker in that order; it fails with the error of the first
\* check that fails, evaluates no later check, and invokes the operation
\* only when all four pass.
C7_CheckOrder ==
  [][\A id \in Callers :
       (ev'.op = "protect" /\ ev'.id = id) =>
         LET limited == Cardinality(InWindow(RequestTimes(id), now)) >= MaxRequests
             over == connectionCount > MaxConnections
             open == cbState = "OPEN" /\ now - lastFailureTime <= RecoveryTimeout
             breakerSame == UNCHANGED <<cbState, failures, lastFailureTime, tasks>>
         IN  /\ isShuttingDown =>
                  /\ ev'.result = "Service is shutting down"
                  /\ requests' = requests
                  /\ requestCount' = requestCount
                  /\ breakerSame
             /\ (~isShuttingDown /\ limited) =>
                  /\ ev'.result = "Rate limit exceeded"
                  /\ requestCount' = requestCount
                  /\ breakerSame
             /\ (~isShuttingDown /\ ~limited /\ over) =>
                  /\ ev'.result = "Too many connections"
                  /\ requestCount' = requestCount
                  /\ breakerSame
             /\ (~isShuttingDown /\ ~limited /\ ~over /\ open) =>
                  /\ ev'.result = "Circuit breaker is OPEN"
                  /\ breakerSame
             /\ ev'.ran <=> ~(isShuttingDown \/ limited \/ over \/ open)
             /\ ev'.ran <=> (InFlight' = InFlight + 1)]_vars

\* C7 witness: a call denied by the rate limiter while the connection count
\* is over the limit and the breaker is OPEN.
C7_Witness ==
  /\ ev.op = "protect"
  /\ ev.result = "Rate limit exceeded"
  /\ IsOverloaded
  /\ BreakerRejects

\* C8: a call denied at the rate-limiter step invokes the operation zero
\* times and leaves the connection count, the request count and the breaker
\* unchanged.
C8_RateLimitDenialFrame ==
  [][(ev'.op = "protect" /\ ev'.result = "Rate limit exceeded") =>
       /\ ~ev'.ran
       /\ tasks' = tasks
       /\ UNCHANGED <<connectionCount, requestCount, cbState, failures,
                      lastFailureTime>>]_vars

\* C8 witness: a rate-limit denial after requests were counted.
C8_Witness ==
  /\ ev.op = "protect"
  /\ ev.result = "Rate limit exceeded"
  /\ requestCount > 0
  /\ connectionCount > 0

\* C9: once set, the shutdown flag stays set; from then on every
\* executeWithProtection call fails with the shutting-down error without
\* invoking its operation, and isSystemHealthy() is false.
C9_ShutdownOneWay ==
  /\ [][isShuttingDown => isShuttingDown']_vars
  /\ [](isShuttingDown => ~IsSystemHealthy)
  /\ [][(isShuttingDown /\ ev'.op = "protect") =>
          /\ ev'.result = "Service is shutting down"
          /\ ~ev'.ran
          /\ UNCHANGED <<tasks, requests, requestCount>>]_vars

\* C9 witness: a call refused for shutdown although the breaker is CLOSED
\* and the connection count healthy.
C9_Witness ==
  /\ isShuttingDown
  /\ ev.op = "protect"
  /\ ev.result = "Service is shutting down"
  /\ cbState = "CLOSED"
  /\ HealthStatus = "healthy"

\* C1: under connect and disconnect events the number of sessions never
\* exceeds maxCapacity, and a connect attempt made while the session count
\* equals maxCapacity is rejected and adds no session.
C1_CapacityInvariant ==
  /\ [](Cardinality(DOMAIN sessions) <= MaxCapacity)
  /\ [][(ev'.op \in {"connect", "join"}
          /\ Cardinality(DOMAIN sessions) = MaxCapacity) =>
          /\ ev'.status = 503
          /\ sessions' = sessions
          /\ sockets' = sockets]_vars

\* C1 witness: a connect was turned away for capacity with the room full.
C1_Witness ==
  /\ ev.op = "connect"
  /\ ev.status = 503
  /\ ev.message = "Room at capacity"
  /\ Cardinality(DOMAIN sessions) = MaxCapacity

\* C2: in every reachable state isHibernating implies that the session map
\* is empty, under every interleaving of connect, inbound message,
\* disconnect, hibernation timer and hibernate().
C2_HibernatingImpliesNoSessions ==
  isHibernating => DOMAIN sessions = {}

\* C10: the in-memory history never holds more than the limit, and it is
\* exactly the most recently accepted messages in the order of acceptance.
C10_HistoryBound ==
  /\ Len(messages) <= HistoryLimit
  /\ Len(messages) = IF Len(log) <= HistoryLimit THEN Len(log) ELSE HistoryLimit
  /\ \A i \in 1..Len(messages) :
       messages[i] = log[Len(log) - Len(messages) + i]

\* C10 witness: more messages were accepted than the limit, the history is
\* full and the oldest accepted message is gone from it.
C10_Witness ==
  /\ Len(log) > HistoryLimit
  /\ Len(messages) = HistoryLimit
  /\ ev.op = "message"
  /\ ev.reply = ""
  /\ \A i \in 1..Len(messages) : messages[i] # log[1]

\* how many of u's messages were accepted inside the trailing window
AcceptedInWindow(u) ==
  Cardinality({i \in 1..Len(log) :
                 log[i].userId = u /\ now - log[i].timestamp < MessageWindowMs})

\* the sockets that were sent a frame of the given type by the last handler
SocketsSent(sent, type) ==
  {w \in DOMAIN sent : \E i \in 1..Len(sent[w]) : sent[w][i].type = type}

\* C11: a message-type payload sent when the limit of the user's messages
\* were accepted in the trailing window is not appended to the history, is
\* not broadcast, and produces an error reply on the originating connection
\* and on no other; a payload below the limit is never turned away by the
\* message rate limit, and when it is accepted it is stored.
C11_MessageRateLimit ==
  [][(ev'.op = "message" /\ ev'.type = "message") =>
       IF AcceptedInWindow(ev'.id) >= MessageLimit
         THEN /\ messages' = messages
              /\ log' = log
              /\ SocketsSent(ev'.sent, "message") = {}
              /\ SocketsSent(ev'.sent, "error") \subseteq {ev'.socket}
              /\ ev'.socket \notin ev'.bad =>
                   ev'.socket \in SocketsSent(ev'.sent, "error")
         ELSE /\ ev'.reply # "Message rate limit exceeded"
              /\ ev'.reply = "" =>
                   /\ Len(log') = Len(log) + 1
                   /\ messages'[Len(messages')] = log'[Len(log')]]_vars

\* how often `frame` was sent to socket w by the last handler
TimesSent(sent, w, frame) ==
  IF w \in DOMAIN sent
    THEN Cardinality({i \in 1..Len(sent[w]) : sent[w][i] = frame})
    ELSE 0

\* C12: when a chat message is accepted, every session registered at that
\* moment, the sender's included, whose send does not throw is sent the
\* message exactly once; a session whose send throws goes through the
\* disconnect path (its Session and User are removed, the sessions that
\* remain are told that it left) and the others still get the message.
C12_BroadcastToAll ==
  [][(ev'.op = "message" /\ ev'.type = "message" /\ ev'.reply = "") =>
       LET registered == Restored(EventState, ev'.socket).sessions
           frame == ChatFrame(log'[Len(log')])
           Good(u) == registered[u].websocket \notin ev'.bad
       IN  \A u \in DOMAIN registered :
             IF Good(u)
               THEN /\ TimesSent(ev'.sent, registered[u].websocket, frame) = 1
                    /\ u \in DOMAIN sessions'
               ELSE /\ TimesSent(ev'.sent, registered[u].websocket, frame) = 0
                    /\ u \notin DOMAIN sessions'
                    /\ u \notin DOMAIN users'
                    /\ \A v \in DOMAIN registered :
                         Good(v) =>
                           TimesSent(ev'.sent, registered[v].websocket,
                                     [type |-> "leave", userId |-> u]) = 1]_vars

\* C12 witness: a chat message was accepted while a send to one session
\* threw; another session got the message and the notice that the first left.
C12_Witness ==
  /\ ev.op = "message"
  /\ ev.type = "message"
  /\ ev.reply = ""
  /\ ev.bad # {}
  /\ SocketsSent(ev.sent, "message") # {}
  /\ SocketsSent(ev.sent, "leave") # {}

\* userCount as getStats() reports it
UserCount == Cardinality(DOMAIN sessions)

\* the users whose session is on a socket in `bad`
OnFailing(bad) == {v \in DOMAIN sessions : sessions[v].websocket \in bad}

\* C13: the disconnect of a user with a session removes the user's Session
\* and User, sends a leave frame to every session that remains and nothing
\* to the user's own socket, lowers userCount by exactly one (and by one
\* more for each remaining session whose send throws), and arms the
\* hibernation timer when the room is left empty; the disconnect of a user
\* without a session changes no field of the room and sends nothing.
C13_Disconnect ==
  [][ev'.op = "close" =>
       LET u == ev'.id
           leave == [type |-> "leave", userId |-> u]
       IN  IF u \in DOMAIN sessions
             THEN /\ ev'.left
                  /\ u \notin DOMAIN sessions'
                  /\ u \notin DOMAIN users'
                  /\ \A v \in DOMAIN sessions \ ({u} \cup OnFailing(ev'.bad)) :
                       /\ v \in DOMAIN sessions'
                       /\ TimesSent(ev'.sent, sessions[v].websocket, leave) = 1
                  /\ sessions[u].websocket \notin DOMAIN ev'.sent
                  /\ ev'.socket \notin DOMAIN ev'.sent
                  /\ DOMAIN sessions' = DOMAIN sessions \ ({u} \cup OnFailing(ev'.bad))
                  /\ OnFailing(ev'.bad) \subseteq {u} => UserCount' = UserCount - 1
                  /\ UserCount' = 0 => hibernationTimeout' = now + HibernationDelay
             ELSE /\ ~ev'.left
                  /\ ev'.sent = <<>>
                  /\ UNCHANGED <<sessions, sessionOrder, users, messages,
                                 typingUsers, typingTimers, roomId, lastActivity,
                                 hibernationTimeout, isHibernating, storage,
                                 connectionCount, messageRateLimits>>]_vars

\* C13 witness: a user with a session disconnected, another session remained
\* and was told.
C13_Witness ==
  /\ ev.op = "close"
  /\ ev.left
  /\ DOMAIN sessions # {}
  /\ SocketsSent(ev.sent, "leave") # {}

\* the chat frames among the frames the last handler sent to socket w
ChatFramesSent(sent, w) ==
  IF w \in DOMAIN sent
    THEN SelectSeq(sent[w], LAMBDA f : f.type = "message")
    ELSE <<>>

\* C14: a successful connect registers the Session on the new socket and a
\* User that is online and not typing, sends the join frame once to every
\* session, the new one included, replays to the new socket and to no other
\* the most recent messages of the history, at most the replay limit of
\* them, oldest first, re-arms the hibernation timer and leaves the room
\* not hibernating.
C14_SuccessfulConnect ==
  [][(ev'.op = "connect" /\ ev'.status = 101) =>
       LET u == ev'.id
           ws == ev'.socket
           join == [type |-> "join", userId |-> u]
           replay == ChatFramesSent(ev'.sent, ws)
           first == Len(messages') - Len(replay)
       IN  /\ u \in DOMAIN sessions'
           /\ sessions'[u].websocket = ws
           /\ ws \notin DOMAIN sockets
           /\ u \in DOMAIN users'
           /\ users'[u].status = "online"
           /\ ~users'[u].isTyping
           /\ \A v \in DOMAIN sessions' :
                TimesSent(ev'.sent, sessions'[v].websocket, join) = 1
           /\ DOMAIN sessions' = (DOMAIN sessions \ OnFailing(ev'.bad)) \cup {u}
           /\ Len(replay) = IF Len(messages') <= RecentLimit
                              THEN Len(messages') ELSE RecentLimit
           /\ \A i \in 1..Len(replay) : replay[i] = ChatFrame(messages'[first + i])
           /\ SocketsSent(ev'.sent, "message") \subseteq {ws}
           /\ hibernationTimeout' = now + HibernationDelay
           /\ ~isHibernating']_vars

\* C14 witness: a user connected to a room whose history is longer than the
\* replay limit, another session was there to see the join.
C14_Witness ==
  /\ ev.op = "connect"
  /\ ev.status = 101
  /\ Len(messages) > RecentLimit
  /\ Cardinality(DOMAIN sessions) > 1
  /\ SocketsSent(ev.sent, "message") = {ev.socket}

\* how many frames of the given type the last handler sent to socket w
FramesOfType(sent, w, type) ==
  IF w \in DOMAIN sent
    THEN Len(SelectSeq(sent[w], LAMBDA f : f.type = type))
    ELSE 0

\* C15: when the typing timer armed by a user's typing start fires (no
\* typing stop and no message of that user cancelled it), the user is
\* afterwards not typing and not in the typing set, and the stop was
\* broadcast exactly once: every session was sent one typing frame.
C15_TypingTimeout ==
  [][ev'.op = "typingTimeout" =>
       LET u == ev'.id
       IN  /\ u \in DOMAIN users' => ~users'[u].isTyping
           /\ u \notin typingUsers'
           /\ \A v \in DOMAIN sessions' :
                FramesOfType(ev'.sent, sessions'[v].websocket, "typing") = 1]_vars

\* the users a typing frame sent by the last handler lists
ListedTyping(sent) ==
  UNION {UNION {IF sent[w][i].type = "typing" THEN sent[w][i].typing ELSE {} :
                  i \in 1..Len(sent[w])} : w \in DOMAIN sent}

\* C16: when the presence tick turns a user from online to away or offline,
\* the user is afterwards not typing, not in the typing set and has no
\* pending typing timer; and a typing frame never lists a user who is away
\* or offline.
C16_PresenceClearsTyping ==
  /\ [][ev'.op = "presence" =>
          \A u \in DOMAIN users \cap DOMAIN users' :
            (users[u].status = "online" /\ users'[u].status # "online") =>
              /\ ~users'[u].isTyping
              /\ u \notin typingUsers'
              /\ \A h \in DOMAIN typingTimers' : typingTimers'[h].userId # u]_vars
  /\ []["sent" \in DOMAIN ev' =>
          \A u \in ListedTyping(ev'.sent) :
            u \in DOMAIN users' /\ users'[u].status = "online"]_vars

\* C18: a connect attempt made when the session count has reached the
\* capacity is rejected for capacity, and the rejection leaves the rate
\* limiter's record, the request count and the circuit breaker as they were.
C18_CapacityBeforeProtection ==
  [][(ev'.op \in {"connect", "join"} /\ AtCapacity) =>
       /\ ev'.status = 503
       /\ ev'.message = "Room at capacity"
       /\ UNCHANGED <<requests, requestCount, failures, lastFailureTime,
                      cbState>>]_vars

\* C19: an oversize payload is answered with an error frame on the socket
\* it came from and on no other, nothing else is sent, and the users (their
\* lastSeen and status included), the sessions, the history and the typing
\* set are as before.
C19_OversizeRejected ==
  [][(ev'.op = "message" /\ ev'.type = "oversize") =>
       /\ ev'.socket \notin ev'.bad =>
            ev'.sent = (ev'.socket :> <<[type |-> "error", content |-> ev'.reply]>>)
       /\ ev'.socket \in ev'.bad => ev'.sent = <<>>
       /\ UNCHANGED <<users, sessions, sessionOrder, messages, typingUsers>>]_vars

\* C17: a connect attempt the admission gate denies is answered with the
\* gate's error, and the sessions, the users, the history, the typing set
\* and the hibernation flag are as before; nothing is sent.
C17_DeniedConnect ==
  [][\A u \in Users :
       (ev'.op = "connect" /\ ev'.id = u /\ GateError(u) # "none") =>
         /\ ev'.status = 503
         /\ ev'.message = GateError(u)
         /\ ev'.sent = <<>>
         /\ UNCHANGED <<sessions, users, messages, typingUsers,
                        isHibernating>>]_vars

C22_DeniedNoSideEffect ==
  [][(ev'.op = "protect" /\ ~ev'.ran) =>
       UNCHANGED <<requests, cbState, failures, lastFailureTime>>]_vars

\* C23: an execute call that arrives while the breaker is HALF_OPEN and the
\* trial operation is still in flight does not invoke its operation.
C23_SingleTrial ==
  [][(ev'.op = "execute" /\ cbState = "HALF_OPEN" /\ tasks[TRUE] > 0) =>
       ~ev'.ran]_vars

\* C27: the step that removes a user's session leaves no typing timer of
\* that user pending, and a typing timer never fires for a user whose User
\* record is gone.
C27_DisconnectCancelsTimer ==
  /\ [][\A u \in DOMAIN sessions \ DOMAIN sessions' :
          \A h \in DOMAIN typingTimers' : typingTimers'[h].userId # u]_vars
  /\ [][ev'.op = "typingTimeout" => ev'.id \in DOMAIN users]_vars

\* the frames the last handler sent to socket w
FramesSent(sent, w) == IF w \in DOMAIN sent THEN sent[w] ELSE <<>>

\* C24 as stated: a ping that is handled sets the sender's lastPing to the
\* current time and sends one pong to the sender's socket; no other frame
\* is sent to any session, whatever the sender's status was.
C24_PingOnly ==
  [][(ev'.op = "message" /\ ev'.type = "ping" /\ ev'.reply = "") =>
       /\ sessions'[ev'.id].lastPing = now
       /\ ev'.sent = (sessions'[ev'.id].websocket :> <<[type |-> "pong"]>>)]_vars

\* C24: a ping that is handled sets the sender's lastPing to the current
\* time and sends one pong to the socket of the sender's session and to no
\* other; when the sender's status was not online, every session is first
\* sent one presence snapshot, and otherwise no other frame is sent.
C24_Ping ==
  [][(ev'.op = "message" /\ ev'.type = "ping" /\ ev'.reply = "") =>
       LET u == ev'.id
           changed == /\ ~ev'.restored
                      /\ u \in DOMAIN users
                      /\ users[u].status # "online"
           snapshot == IF changed THEN <<UserListFrame([users |-> users'])>>
                       ELSE <<>>
       IN  /\ sessions'[u].lastPing = now
           /\ DOMAIN ev'.sent \subseteq
                {sessions'[v].websocket : v \in DOMAIN sessions'}
           /\ \A v \in DOMAIN sessions' :
                FramesSent(ev'.sent, sessions'[v].websocket) =
                  snapshot \o (IF v = u THEN <<[type |-> "pong"]>> ELSE <<>>)]_vars

\* C24 witness: a ping of a user who was away, in a room of two sessions:
\* both were sent the snapshot and one of them the pong.
C24_Witness ==
  /\ ev.op = "message"
  /\ ev.type = "ping"
  /\ ev.reply = ""
  /\ Cardinality(DOMAIN sessions) = 2
  /\ \A v \in DOMAIN sessions :
       FramesOfType(ev.sent, sessions[v].websocket, "userList") = 1
  /\ Cardinality(SocketsSent(ev.sent, "pong")) = 1

\* C25: an inbound payload within the size limit that the gate admits, of
\* whatever type, from a user with a session leaves that user's lastSeen at
\* the current time and the status online, and when the status was not
\* online before, every session is sent a presence snapshot.
C25_ActivityOnEveryPayload ==
  [][\A u \in Users :
       (/\ ev'.op = "message"
        /\ ev'.id = u
        /\ ev'.type # "oversize"
        /\ u \in DOMAIN sessions
        /\ GateError(u) = "none") =>
         /\ u \in DOMAIN users'
         /\ users'[u].lastSeen = now
         /\ users'[u].status = "online"
         /\ (u \in DOMAIN users /\ users[u].status # "online") =>
              \A v \in DOMAIN sessions' :
                FramesOfType(ev'.sent, sessions'[v].websocket, "userList") >= 1]_vars

\* C26: after a presence tick every user's status is online when the user
\* has a session and was seen within the away threshold, away when the user
\* has a session and was last seen longer ago, offline when the user has no
\* session; every session is sent one presence snapshot when at least one
\* status changed, and nothing is sent when none did.
C26_PresenceTick ==
  [][ev'.op = "presence" =>
       LET changed == \E u \in DOMAIN users : users[u].status # users'[u].status
       IN  /\ DOMAIN users' = DOMAIN users
           /\ \A u \in DOMAIN users' :
                users'[u].status =
                  IF u \in DOMAIN sessions'
                    THEN (IF now - users'[u].lastSeen > AwayThreshold
                            THEN "away" ELSE "online")
                    ELSE "offline"
           /\ DOMAIN ev'.sent \subseteq
                {sessions'[v].websocket : v \in DOMAIN sessions'}
           /\ \A v \in DOMAIN sessions' :
                FramesSent(ev'.sent, sessions'[v].websocket) =
                  IF changed THEN <<UserListFrame([users |-> users'])>>
                  ELSE <<>>]_vars

\* C26 witness: a tick after which one user is online, seen exactly the
\* threshold ago, and the other is offline, with the snapshot sent.
C26_Witness ==
  /\ ev.op = "presence"
  /\ ev.sent # <<>>
  /\ \E u \in DOMAIN users :
       /\ users[u].status = "online"
       /\ now - users[u].lastSeen = AwayThreshold
  /\ \E u \in DOMAIN users : users[u].status = "offline"

C29_AttemptClearsFlag ==
  [][(isHibernating /\ ev'.op \in {"connect", "join"}) => ~isHibernating']_vars

\* C29: a connection attempt that succeeds leaves the room not hibernating;
\* one that is turned away (by the gate, for capacity, or for the missing
\* upgrade header) leaves the flag as it was.
C29_SuccessClearsFlag ==
  [][ev'.op \in {"connect", "join"} =>
       isHibernating' = (IF ev'.status = 101 THEN FALSE ELSE isHibernating)]_vars

\* C29 witness: the first connect the room ever accepted came after a
\* completed hibernation, and the room is not hibernating.
C29_Witness ==
  /\ ev.op = "connect"
  /\ ev.status = 101
  /\ created = 1
  /\ alarmAt # NoTimer
  /\ ~isHibernating

\* C21: while the storage rejects its puts, a chat message, a connect and a
\* disconnect are handled as ever: an admitted message within the rate limit
\* is appended and sent once to every session, an accepted connect registers
\* the session and the user and sends the join frame to every session, a
\* disconnect removes them and tells every session that remains; no error
\* frame is sent, the breaker counts no failure, and the storage keeps what
\* it held.
C21_PutFailureSwallowed ==
  [][(storageDown /\ ev'.op \in {"connect", "message", "close"}) =>
       /\ storage' = storage
       /\ ev'.op = "message" =>
            (ev'.reply = "") <=> (/\ GateError(ev'.id) = "none"
                                  /\ AcceptedInWindow(ev'.id) < MessageLimit)
       /\ (ev'.op = "message" /\ ev'.reply = "") =>
            /\ Len(log') = Len(log) + 1
            /\ messages' # <<>>
            /\ messages'[Len(messages')] = log'[Len(log')]
            /\ \A v \in DOMAIN sessions' :
                 TimesSent(ev'.sent, sessions'[v].websocket,
                           ChatFrame(log'[Len(log')])) = 1
            /\ SocketsSent(ev'.sent, "error") = {}
            /\ failures' = 0
            /\ cbState' = "CLOSED"
       /\ (ev'.op = "connect" /\ ev'.status = 101) =>
            /\ ev'.id \in DOMAIN sessions'
            /\ sessions'[ev'.id].websocket = ev'.socket
            /\ ev'.id \in DOMAIN users'
            /\ \A v \in DOMAIN sessions' :
                 TimesSent(ev'.sent, sessions'[v].websocket,
                           [type |-> "join", userId |-> ev'.id]) = 1
            /\ SocketsSent(ev'.sent, "error") = {}
            /\ failures' = 0
            /\ cbState' = "CLOSED"
       /\ (ev'.op = "close" /\ ev'.left) =>
            /\ ev'.id \notin DOMAIN sessions'
            /\ ev'.id \notin DOMAIN users'
            /\ \A v \in DOMAIN sessions' :
                 TimesSent(ev'.sent, sessions'[v].websocket,
                           [type |-> "leave", userId |-> ev'.id]) = 1
            /\ SocketsSent(ev'.sent, "error") = {}
            /\ UNCHANGED <<failures, cbState>>]_vars

\* C21 witness: a message was accepted and sent to two sessions while the
\* put of the history, due with this message, was rejected.
C21_Witness ==
  /\ storageDown
  /\ ev.op = "message"
  /\ ev.reply = ""
  /\ Cardinality(DOMAIN sessions) = 2
  /\ Cardinality(SocketsSent(ev.sent, "message")) = 2
  /\ Len(messages) % SaveInterval = 0
  /\ "messages" \notin DOMAIN storage

\* C30: a room whose sessions are gone and whose hibernation timer is armed
\* is hibernating in the end, unless a session comes back; an accepted
\* connect, an accepted chat message and a disconnect each re-arm the timer
\* one hibernation delay ahead; and a timer that fires while there are
\* sessions starts no hibernation.
C30_IdleRoomHibernates ==
  /\ (DOMAIN sessions = {} /\ hibernationTimeout # NoTimer)
       ~> (isHibernating \/ DOMAIN sessions # {})
  /\ [][(\/ ev'.op = "connect" /\ ev'.status = 101
         \/ ev'.op = "message" /\ ev'.reply = ""
         \/ ev'.op = "close" /\ ev'.left) =>
          hibernationTimeout' = now + HibernationDelay]_vars
  /\ [][(/\ hibernationTimeout # NoTimer
         /\ hibernationTimeout' = NoTimer
         /\ DOMAIN sessions # {}) =>
          UNCHANGED <<isHibernating, saving, storage, alarmAt>>]_vars

\* C30 witness: the room hibernates, left empty by its last user at least
\* one hibernation delay ago, after a chat message was accepted.
C30_Witness ==
  /\ isHibernating
  /\ ev.op = "hibernated"
  /\ DOMAIN sessions = {}
  /\ log # <<>>
  /\ now >= lastActivity + HibernationDelay

\* C39: while the breaker is OPEN no operation starts, so every operation in
\* flight was started before the last failure: the success of such an
\* operation leaves the breaker OPEN and the failure count as it was, and the
\* breaker never goes from OPEN to CLOSED in one step.
C39_LateSuccessKeepsOpen ==
  /\ [][cbState = "OPEN" => cbState' # "CLOSED"]_vars
  /\ [][(cbState = "OPEN" /\ ev'.op = "settle" /\ ev'.result = "success") =>
          UNCHANGED <<cbState, failures>>]_vars

\* the typing timers pending for user u
TimersOf(u) == {h \in DOMAIN typingTimers : typingTimers[h].userId = u}

\* a handled typing start leaves the user's timer due one delay from now
TypingStartRearms ==
  (/\ ev'.op = "message"
   /\ ev'.type = "typingStart"
   /\ ev'.reply = ""
   /\ ev'.id \in DOMAIN users') =>
    /\ \E h \in DOMAIN typingTimers' : typingTimers'[h].userId = ev'.id
    /\ \A h \in DOMAIN typingTimers' :
         typingTimers'[h].userId = ev'.id =>
           typingTimers'[h].at = now + TypingDelay

\* no user has more than one typing timer pending
OneTimerPerUser == \A u \in Users : Cardinality(TimersOf(u)) <= 1

\* C33: after a typing start that is handled, the user's typing timer is due
\* one typing delay after this typing start, whether the user was typing
\* already or not; and no user ever has more than one typing timer pending.
C33_TypingStartRearms == [][TypingStartRearms]_vars /\ []OneTimerPerUser

\* the users whose record exists and is flagged as typing
FlaggedTyping == {u \in DOMAIN users : users[u].isTyping}

\* C35: the typing set holds exactly the ids whose User record exists with
\* isTyping true, in every state (so an id that disconnected or reconnected
\* while typing is not in it), and the typing frame a typing start broadcasts
\* lists only users whose isTyping is true.
C35_TypingSetMatchesFlags ==
  /\ [](typingUsers = FlaggedTyping)
  /\ [][(ev'.op = "message" /\ ev'.type = "typingStart" /\ ev'.reply = "") =>
          ListedTyping(ev'.sent) \subseteq FlaggedTyping']_vars

\* C37: when the socket that closes is not the socket of its user's current
\* session (the user connected again and replaced it), the close leaves the
\* user's current Session and User record in place and sends no leave frame.
C37_ReplacedSocketCloseIsIgnored ==
  [][(/\ ev'.op = "close"
      /\ ev'.id \in DOMAIN sessions
      /\ sessions[ev'.id].websocket # ev'.socket) =>
       /\ ev'.id \in DOMAIN sessions'
       /\ sessions'[ev'.id] = sessions[ev'.id]
       /\ ev'.id \in DOMAIN users'
       /\ SocketsSent(ev'.sent, "leave") = {}]_vars

\* the clock moves while an alarm is set and not yet due
AlarmPending == alarmAt # NoTimer /\ now < alarmAt

\* one user's connections and chat messages, hibernation requests and the
\* alarm they set
NextAlarm ==
  \/ Connect(Resident, {})
  \/ \E w \in SocketIds : WebSocketMessage(w, "message", {})
  \/ \E w \in SocketIds : WebSocketClose(w, {})
  \/ HandleHibernation
  \/ HibernationSaved
  \/ Alarm
  \/ AlarmPending /\ Advance

SpecAlarm == Init /\ [][NextAlarm]_vars

\* C31: the alarm leaves the last AlarmKeep entries of the history, removes
\* exactly the users whose last activity (lastSeen) is more than the
\* inactivity threshold old, so that a user who was active within the
\* threshold is kept, writes the resulting user list to storage and sets the
\* next alarm one alarm delay from now.
C31_AlarmCleansUp ==
  [][ev'.op = "alarm" =>
       /\ messages' = LastN(messages, AlarmKeep)
       /\ DOMAIN users' =
            {u \in DOMAIN users : ~(now - users[u].lastSeen > InactiveThreshold)}
       /\ \A u \in DOMAIN users' : users'[u] = users[u]
       /\ "users" \in DOMAIN storage' /\ storage'["users"] = users'
       /\ alarmAt' = now + AlarmDelay]_vars

\* C36: in every state, every user id that has a session has a User record.
C36_SessionHasUser == DOMAIN sessions \subseteq DOMAIN users

\* time passes until the alarm that is set comes due
AlarmComesDue ==
  /\ alarmAt # NoTimer
  /\ now < alarmAt
  /\ alarmAt <= MaxTime
  /\ now' = alarmAt
  /\ ev' = NoEv
  /\ UNCHANGED <<roomVars, protVars, tasks, accepted>>

\* one user's single connection and chat messages, hibernation requests, the
\* alarm and a restart of the object
NextHistory ==
  \/ DOMAIN sessions = {} /\ Connect(Resident, {})
  \/ \E w \in SocketIds : WebSocketMessage(w, "message", {})
  \/ HandleHibernation
  \/ HibernationSaved
  \/ Alarm
  \/ Restart
  \/ AlarmComesDue

SpecHistory == Init /\ [][NextHistory]_vars

\* the entries of this.messages that the stored 'messages' record lacks
Unsaved ==
  {i \in 1..Len(messages) :
     \/ "messages" \notin DOMAIN storage
     \/ \A j \in 1..Len(storage["messages"]) :
          storage["messages"][j] # messages[i]}

\* C32: storage writes succeeding, after every message handler the number of
\* in-memory messages that the stored 'messages' record lacks is below the
\* save interval, whatever accepted messages, alarm trims and loads came
\* before.
C32_UnsavedBelowInterval ==
  [][ev'.op = "message" => Cardinality(Unsaved') <= SaveInterval - 1]_vars

C32_Witness ==
  /\ ev.op = "message"
  /\ ev.reply = ""
  /\ restarts > 0
  /\ alarmAt > AlarmDelay
  /\ "messages" \in DOMAIN storage
  /\ Cardinality(Unsaved) = SaveInterval - 1

\* three user ids, one more than the room's capacity
Crowd == Users \cup {"c"}

\* the sockets of a crowd
CrowdSockets == 1..(MaxSockets + 1)

\* connects of three users, their chat messages and a restart of the object
NextCrowd ==
  \/ \E u \in Crowd : HandleWebSocketWithin(FetchState, u, {}, MaxSockets + 1)
  \/ \E w \in CrowdSockets : WebSocketMessage(w, "message", {})
  \/ Restart

SpecCrowd == Init /\ [][NextCrowd]_vars

\* C34: the room never holds more sessions than its capacity, also after
\* webSocketMessage re-created the session of a socket that had none.
C34_CapacityOnRestore ==
  /\ [](Cardinality(DOMAIN sessions) <= MaxCapacity)
  /\ [][(ev'.op = "message" /\ ev'.restored) =>
          Cardinality(DOMAIN sessions') <= MaxCapacity]_vars

\* the history new continues the history old: it holds the entries of old,
\* in order, followed by later ones, less the oldest entries the history
\* limit cut off
Continues(old, new) ==
  \E k \in 0..Len(old) :
    /\ Len(new) >= Len(old) - k
    /\ SubSeq(new, 1, Len(old) - k) = SubSeq(old, k + 1, Len(old))
    /\ k > 0 => Len(new) = HistoryLimit

\* C40: a put of 'messages' never replaces the stored history by one that
\* lacks stored messages the history limit did not cut off, also when the
\* first event after a restart is an inbound WebSocket frame.
C40_StoredHistoryContinues ==
  [][("messages" \in DOMAIN storage /\ "messages" \in DOMAIN storage') =>
       Continues(storage["messages"], storage'["messages"])]_vars

\* one user's connections and chat messages, the hibernation timer and a
\* restart of the object, after which only WebSocket events and timers reach
\* it until the next connect
NextRestore ==
  \/ Connect(Resident, {})
  \/ \E w \in SocketIds : WebSocketMessage(w, "message", {})
  \/ \E w \in SocketIds : WebSocketClose(w, {})
  \/ HibernationTimerFires
  \/ HibernationSaved
  \/ Restart
  \/ TimePasses

SpecRestore == Init /\ [][NextRestore]_vars

\* the user whose requests are all valid, and the user whose requests may be
\* rejected for what they carry
Quiet == Resident
Noisy == CHOOSE u \in Users : u # Quiet

\* the open sockets of user u
SocketsOf(u) == {w \in DOMAIN sockets : sockets[w].userId = u}

\* one user sends chat messages beyond the message rate limit, oversized
\* payloads and connects to the full room; the other connects while absent
\* and sends chat messages within the message rate limit
NextNoisy ==
  \/ Connect(Noisy, {})
  \/ \E w \in SocketsOf(Noisy), type \in ChatTypes :
       WebSocketMessage(w, type, {})
  \/ Quiet \notin DOMAIN sessions /\ Connect(Quiet, {})
  \/ \E w \in SocketsOf(Quiet) :
       ~IsMessageRateLimited(Quiet) /\ WebSocketMessage(w, "message", {})

SpecNoisy == Init /\ [][NextNoisy]_vars

\* what the last handler answered: the connect's error text or the reply
\* to the frame
Answer(e) == IF e.op = "connect" THEN e.message ELSE e.reply

\* C38: a valid connect or chat message of one user is admitted whatever
\* the other user's rejected requests were: it is handled, or refused only
\* by the sender's own request rate limit.
C38_RejectionsDoNotSpread ==
  [][(ev'.op \in {"connect", "message"} /\ ev'.id = Quiet) =>
       Answer(ev') \in {"", "Rate limit exceeded"}]_vars

====
